---------------------------- MODULE Spec2Model ----------------------------
(***************************************************************************)
(* A model of the MLflow dashboard plugin for the FiftyOne App:            *)
(*   src/src/State.ts     the recoil atom iframeURLAtom                    *)
(*   src/src/Operator.ts  the operator set_iframe_url                      *)
(*   src/src/MLFlow.tsx   the panel MLFlowPanel, its hook                  *)
(*                        useServerAvailability and its URLInputForm       *)
(*                                                                         *)
(* The state is the atom, the React state of one mounted panel instance,   *)
(* the state of the operator executor the panel uses (isExecuting and      *)
(* result), and the reachability probes (fetch promises) still in flight.  *)
(* What the panel renders is a function of that state and is given by the  *)
(* operators Loading, ShowForm, ShowEmptyMsg, ShowSelector,                *)
(* SelectorOptions, IframeRendered and IframeSrc.                          *)
(*                                                                         *)
(* Every handler is one action, with the re-render and the effects that    *)
(* React runs after it.  JavaScript values are modelled by strings; the    *)
(* value undefined is the string Undefined, which no input string equals.  *)
(***************************************************************************)
EXTENDS Naturals, Sequences, FiniteSets, Bags

VARIABLES
    iframeURL,            \* State.ts: the value of iframeURLAtom
    mounted,              \* whether a MLFlowPanel instance is mounted
    experimentURLValue,   \* MLFlowPanel: useState("")
    serverAvailable,      \* useServerAvailability: useState(true)
    url,                  \* useServerAvailability: useState(defaultUrl)
    inputUrl,             \* URLInputForm: useState("")
    isExecuting,          \* getExperimentURLs.isExecuting
    result,               \* getExperimentURLs.result
    probes,               \* bag of the fetch(url) promises not yet settled
    selectedURLs,         \* history: the urls chosen in the selector since mount
    targetOutcome,        \* history: how the probe issued for the current url
                          \* settled: "pending", "ok", "fail" ("none": unmounted)
    lastOp                \* history: the handler that ran last, with its input

vars == <<iframeURL, mounted, experimentURLValue, serverAvailable, url, inputUrl,
          isExecuting, result, probes, selectedURLs, targetOutcome, lastOp>>

panelVars == <<mounted, experimentURLValue, serverAvailable, url, inputUrl,
               isExecuting, result, probes, selectedURLs, targetOutcome>>

----------------------------------------------------------------------------
(* Bounds of the model *)

\* the longest descriptor list the remote operation returns
MaxDescriptors == 2

\* the most probes in flight at once
MaxProbes == 2

----------------------------------------------------------------------------
(* Values *)

\* MLFlow.tsx:106, the panel's defaultUrl
defaultUrl == "http://127.0.0.1:5000"

\* State.ts:5, the atom's default
atomDefault == "http://127.0.0.1:5000"

\* the JavaScript value undefined
Undefined == "<undefined>"

\* the {name, url} descriptors the remote operation may return
Descriptors ==
    { [name |-> "exp-a", url |-> "http://127.0.0.1:5000/#/experiments/1"],
      [name |-> "exp-b", url |-> "http://127.0.0.1:5000/#/experiments/2"] }

DescriptorLists ==
    UNION { [1..n -> Descriptors] : n \in 0..MaxDescriptors }

\* what the user may type into the URL-override text field
InputStrings == { "", defaultUrl, "http://10.0.0.7:5000" }

\* the params.url a caller may hand to set_iframe_url
ParamUrls == { Undefined, "not a url", "http://10.0.0.7:5000" }

\* getExperimentURLs.result before any completion
NoResult == [defined |-> FALSE, urlsIsArray |-> FALSE, urls |-> << >>]

NoOp(op) == [op |-> op, arg |-> "", k |-> 0]

----------------------------------------------------------------------------
(* What MLFlowPanel renders *)

\* MLFlow.tsx:130-132  getExperimentURLs?.result?.urls
experimentURLs ==
    IF result.defined /\ result.urlsIsArray
    THEN [isArray |-> TRUE, items |-> result.urls]
    ELSE [isArray |-> FALSE, items |-> << >>]

\* MLFlow.tsx:134-136  getExperimentURLs?.isExecuting
loadingExperimentURLs == isExecuting

\* mutant of Loading: the Array.isArray test is left out
Loading_NoArrayCheck ==
    mounted /\ loadingExperimentURLs

\* MLFlow.tsx:138  the branch that returns only <CircularProgress />
Loading ==
    mounted /\ (loadingExperimentURLs \/ experimentURLs.isArray = FALSE)

\* mutant of ShowForm: the negation is left out
ShowForm_Inverted ==
    mounted /\ ~Loading /\ serverAvailable

\* MLFlow.tsx:164  {!serverAvailable && <URLInputForm .../>}
ShowForm ==
    mounted /\ ~Loading /\ ~serverAvailable

\* mutant of ShowEmptyMsg: {experimentURLs.length && <Box>...</Box>}
ShowEmptyMsg_Truthy ==
    mounted /\ ~Loading /\ Len(experimentURLs.items) # 0

\* MLFlow.tsx:165  {experimentURLs.length == 0 && <Box>No experiments found</Box>}
ShowEmptyMsg ==
    mounted /\ ~Loading /\ Len(experimentURLs.items) = 0

\* mutant of ShowSelector: experimentURLs.length > 0
ShowSelector_AtLeastOne ==
    mounted /\ ~Loading /\ Len(experimentURLs.items) > 0

\* MLFlow.tsx:166  {experimentURLs.length > 1 && (... <Select> ...)}
ShowSelector ==
    mounted /\ ~Loading /\ Len(experimentURLs.items) > 1

\* mutant of SelectorOptions: <MenuItem value={item.name}>
SelectorOptions_ValueIsName ==
    [i \in 1..Len(experimentURLs.items) |->
        [label |-> experimentURLs.items[i].name,
         value |-> experimentURLs.items[i].name]]

\* MLFlow.tsx:184-188  one <MenuItem value={item.url}>{item.name}</MenuItem> per item
SelectorOptions ==
    [i \in 1..Len(experimentURLs.items) |->
        [label |-> experimentURLs.items[i].name,
         value |-> experimentURLs.items[i].url]]

\* MLFlow.tsx:202-212  the <iframe> of the non-loading branch
IframeRendered ==
    mounted /\ ~Loading

\* mutant of IframeSrc: the iframe shows the atom, src={iframeURL}
IframeSrc_FromAtom ==
    iframeURL

\* MLFlow.tsx:209  src={experimentURLValue || defaultUrl}
IframeSrc ==
    IF experimentURLValue # "" THEN experimentURLValue ELSE defaultUrl

----------------------------------------------------------------------------
(* Initial state: the modules are loaded, no panel is mounted *)

Init ==
    /\ iframeURL = atomDefault
    /\ mounted = FALSE
    /\ experimentURLValue = ""
    /\ serverAvailable = TRUE
    /\ url = defaultUrl
    /\ inputUrl = ""
    /\ isExecuting = FALSE
    /\ result = NoResult
    /\ probes = EmptyBag
    /\ selectedURLs = {}
    /\ targetOutcome = "none"
    /\ lastOp = NoOp("init")


----------------------------------------------------------------------------
(* Helpers *)

\* one pending fetch(target), issued by the mounted instance (live) or by an
\* instance that has since been unmounted
Probe(target, live) == [target |-> target, live |-> live]

\* MLFlow.tsx:59-63  the effect of useServerAvailability: one fetch of u
IssueProbe(u) == probes (+) SetToBag({Probe(u, TRUE)})

\* unmounting disposes the instance: the promises of its fetches stay
\* pending, their callbacks then set state of a disposed component
Orphaned ==
    LET targets == { p.target : p \in BagToSet(probes) }
        count(t) == CopiesIn(Probe(t, TRUE), probes) + CopiesIn(Probe(t, FALSE), probes)
    IN  [p \in { Probe(t, FALSE) : t \in targets } |-> count(p.target)]

----------------------------------------------------------------------------
(* The host mounts and unmounts the panel *)

\* MLFlow.tsx:105-128  first render of MLFlowPanel and its two mount effects:
\* fetch(defaultUrl) and getExperimentURLs.execute()
Mount ==
    /\ ~mounted
    /\ BagCardinality(probes) < MaxProbes
    /\ mounted' = TRUE
    /\ experimentURLValue' = ""
    /\ serverAvailable' = TRUE
    /\ url' = defaultUrl
    /\ inputUrl' = ""
    /\ isExecuting' = TRUE
    /\ result' = NoResult
    /\ probes' = IssueProbe(defaultUrl)
    /\ selectedURLs' = {}
    /\ targetOutcome' = "pending"
    /\ lastOp' = NoOp("mount")
    /\ UNCHANGED iframeURL

\* the host closes the panel: all state of the instance is disposed
Unmount ==
    /\ mounted
    /\ mounted' = FALSE
    /\ experimentURLValue' = ""
    /\ serverAvailable' = TRUE
    /\ url' = defaultUrl
    /\ inputUrl' = ""
    /\ isExecuting' = FALSE
    /\ result' = NoResult
    /\ probes' = Orphaned
    /\ selectedURLs' = {}
    /\ targetOutcome' = "none"
    /\ lastOp' = NoOp("unmount")
    /\ UNCHANGED iframeURL

----------------------------------------------------------------------------
(* The remote operation get_mlflow_experiment_urls completes *)

\* MLFlow.tsx:108-110,130-136  the call resolves with {urls: list}
FetchResolve(list) ==
    /\ mounted /\ isExecuting
    /\ isExecuting' = FALSE
    /\ result' = [defined |-> TRUE, urlsIsArray |-> TRUE, urls |-> list]
    /\ lastOp' = NoOp("fetchResolve")
    /\ UNCHANGED <<iframeURL, mounted, experimentURLValue, serverAvailable, url,
                   inputUrl, probes, selectedURLs, targetOutcome>>

\* MLFlow.tsx:108-110,130-136  the call resolves with a result whose urls
\* field is absent or no array
FetchResolveNoUrls ==
    /\ mounted /\ isExecuting
    /\ isExecuting' = FALSE
    /\ result' = [defined |-> TRUE, urlsIsArray |-> FALSE, urls |-> << >>]
    /\ lastOp' = NoOp("fetchResolveNoUrls")
    /\ UNCHANGED <<iframeURL, mounted, experimentURLValue, serverAvailable, url,
                   inputUrl, probes, selectedURLs, targetOutcome>>

\* MLFlow.tsx:108-110,130-136  the call is rejected: no result is set
FetchReject ==
    /\ mounted /\ isExecuting
    /\ isExecuting' = FALSE
    /\ result' = NoResult
    /\ lastOp' = NoOp("fetchReject")
    /\ UNCHANGED <<iframeURL, mounted, experimentURLValue, serverAvailable, url,
                   inputUrl, probes, selectedURLs, targetOutcome>>

----------------------------------------------------------------------------
(* The user acts on the panel *)

\* MLFlow.tsx:114-117  handleExperimentURLChange, the user picks option k
Select(k) ==
    /\ ShowSelector
    /\ k \in DOMAIN SelectorOptions
    /\ experimentURLValue' = SelectorOptions[k].value
    /\ selectedURLs' = selectedURLs \cup {SelectorOptions[k].value}
    /\ lastOp' = [op |-> "select", arg |-> "", k |-> k]
    /\ UNCHANGED <<iframeURL, mounted, serverAvailable, url, inputUrl,
                   isExecuting, result, probes, targetOutcome>>

\* MLFlow.tsx:95  onChange of the text field: setInputUrl(e.target.value)
TypeInput(s) ==
    /\ ShowForm
    /\ inputUrl' = s
    /\ lastOp' = NoOp("type")
    /\ UNCHANGED <<iframeURL, mounted, experimentURLValue, serverAvailable, url,
                   isExecuting, result, probes, selectedURLs, targetOutcome>>

\* mutant of handleUpdateUrl: the effect has the deps array [] and never re-runs
handleUpdateUrl_NoProbe(newUrl) ==
    /\ url' = newUrl
    /\ probes' = probes
    /\ targetOutcome' = targetOutcome

\* MLFlow.tsx:122-124  handleUpdateUrl: setUrl(newUrl).  A changed url
\* re-runs the effect of lines 59-63, an unchanged one does not (the deps
\* array [url] is compared with Object.is)
handleUpdateUrl(newUrl) ==
    /\ url' = newUrl
    /\ IF newUrl # url
       THEN /\ BagCardinality(probes) < MaxProbes
            /\ probes' = IssueProbe(newUrl)
            /\ targetOutcome' = "pending"
       ELSE /\ probes' = probes
            /\ targetOutcome' = targetOutcome

\* MLFlow.tsx:71-74  handleSubmit of URLInputForm: onSubmit(inputUrl)
Submit ==
    /\ ShowForm
    /\ handleUpdateUrl(inputUrl)
    /\ lastOp' = [op |-> "submit", arg |-> inputUrl, k |-> 0]
    /\ UNCHANGED <<iframeURL, mounted, experimentURLValue, serverAvailable,
                   inputUrl, isExecuting, result, selectedURLs>>

----------------------------------------------------------------------------
(* A reachability probe settles *)

\* MLFlow.tsx:60-62  .then(() => setServerAvailable(true))
\*                   .catch(() => setServerAvailable(false))
\* When the form of line 164 leaves the tree its inputUrl state is gone.
\* Neither callback looks at which fetch it belongs to.  The history
\* targetOutcome does: the settled promise is the one issued for the current
\* url (cur) or an earlier one with the same target still in the bag.
ProbeSettle(p, ok) ==
    /\ p \in BagToSet(probes)
    /\ probes' = probes (-) SetToBag({p})
    /\ IF p.live
       THEN /\ serverAvailable' = ok
            /\ inputUrl' = IF ok THEN "" ELSE inputUrl
            /\ lastOp' = [op |-> IF ok THEN "probeOk" ELSE "probeFail",
                          arg |-> p.target, k |-> 0]
            /\ \E cur \in BOOLEAN :
                  LET pendingHere == targetOutcome = "pending" /\ p.target = url
                  IN  /\ cur => pendingHere
                      /\ ~cur => CopiesIn(p, probes) > (IF pendingHere THEN 1 ELSE 0)
                      /\ targetOutcome' = IF cur
                                          THEN (IF ok THEN "ok" ELSE "fail")
                                          ELSE targetOutcome
       ELSE /\ UNCHANGED <<serverAvailable, inputUrl, targetOutcome>>
            /\ lastOp' = [op |-> "probeOrphan", arg |-> p.target, k |-> 0]
    /\ UNCHANGED <<iframeURL, mounted, experimentURLValue, url, isExecuting,
                   result, selectedURLs>>

----------------------------------------------------------------------------
(* The operator set_iframe_url *)

\* mutant of SetIframeURL: params.url is written only when it is a URL
SetIframeURL_Validated(x) ==
    /\ iframeURL' = IF x \in {Undefined, "not a url"} THEN iframeURL ELSE x
    /\ lastOp' = [op |-> "set_iframe_url", arg |-> x, k |-> 0]
    /\ UNCHANGED panelVars

\* Operator.ts:24-26  execute: hooks.setIframeUrl(params.url)
SetIframeURL(x) ==
    /\ iframeURL' = x
    /\ lastOp' = [op |-> "set_iframe_url", arg |-> x, k |-> 0]
    /\ UNCHANGED panelVars

----------------------------------------------------------------------------

Next ==
    \/ Mount
    \/ Unmount
    \/ \E list \in DescriptorLists : FetchResolve(list)
    \/ FetchResolveNoUrls
    \/ FetchReject
    \/ \E k \in 1..MaxDescriptors : Select(k)
    \/ \E s \in InputStrings : TypeInput(s)
    \/ Submit
    \/ \E p \in BagToSet(probes), ok \in BOOLEAN : ProbeSettle(p, ok)
    \/ \E x \in ParamUrls : SetIframeURL(x)

Spec == Init /\ [][Next]_vars

----------------------------------------------------------------------------
(* Properties *)

\* the fetch has completed and its result holds an array-valued urls field
FetchedArray ==
    mounted /\ ~isExecuting /\ result.defined /\ result.urlsIsArray

\* C1 (as amended): right after a probe of the current target url settles,
\* serverAvailable is its outcome; on success the URL-override form is not
\* shown; on failure the form is shown exactly when the panel is not in its
\* loading branch.
C1_ProbeOutcomeShown ==
    mounted /\ lastOp.arg = url =>
        /\ lastOp.op = "probeOk" => serverAvailable /\ ~ShowForm
        /\ lastOp.op = "probeFail" =>
              ~serverAvailable /\ (ShowForm <=> ~Loading)

\* C1 as stated: after a failed probe of the current target the form is
\* shown, at any point.
C1_Original ==
    mounted /\ lastOp.arg = url =>
        /\ lastOp.op = "probeOk" => serverAvailable /\ ~ShowForm
        /\ lastOp.op = "probeFail" => ~serverAvailable /\ ShowForm

C1_Witness ==
    /\ lastOp.op = "probeFail" /\ lastOp.arg = url /\ url # defaultUrl
    /\ ~serverAvailable /\ ShowForm

\* C2: while the remote call is executing, or its result has no array-valued
\* urls field, the panel renders the progress indicator and nothing else;
\* the other branch is rendered only when the call is not executing and
\* urls is an array.
C2_LoadingShowsOnlyIndicator ==
    mounted =>
        /\ (isExecuting \/ ~(result.defined /\ result.urlsIsArray)) =>
              /\ Loading
              /\ ~ShowForm /\ ~ShowEmptyMsg /\ ~ShowSelector /\ ~IframeRendered
        /\ ~Loading => ~isExecuting /\ result.defined /\ result.urlsIsArray

C2_Witness ==
    /\ mounted /\ ~isExecuting /\ ~result.defined
    /\ ~serverAvailable /\ Loading /\ ~ShowForm

\* C3: with N >= 2 descriptors fetched the selector is rendered with exactly
\* N options, option i labelled with descriptor i's name and valued with its
\* url, and right after the user selects option k the iframe's src is
\* descriptor k's url.
C3_SelectionDrivesIframe ==
    FetchedArray /\ Len(result.urls) >= 2 =>
        /\ ShowSelector
        /\ DOMAIN SelectorOptions = 1..Len(result.urls)
        /\ \A i \in 1..Len(result.urls) :
              /\ SelectorOptions[i].label = result.urls[i].name
              /\ SelectorOptions[i].value = result.urls[i].url
        /\ lastOp.op = "select" =>
              IframeRendered /\ IframeSrc = result.urls[lastOp.k].url

C3_Witness ==
    /\ lastOp.op = "select" /\ lastOp.k = 2
    /\ Cardinality(selectedURLs) = 2
    /\ IframeRendered /\ IframeSrc = result.urls[2].url

\* the override the user submitted, when the probe target is one
SubmittedOverride ==
    IF url # defaultUrl THEN {url} ELSE {}

\* C4: whenever the iframe is rendered its src is the hardcoded default, a
\* url the user selected, or a url the user submitted in the override form.
C4_DisplayedUrlGuarantee ==
    IframeRendered =>
        IframeSrc \in {defaultUrl} \cup selectedURLs \cup SubmittedOverride

C4_Witness ==
    /\ IframeRendered /\ IframeSrc \in selectedURLs
    /\ iframeURL \notin {atomDefault} \cup selectedURLs
    /\ url # defaultUrl

\* C5: set_iframe_url can be executed in every state, and right after it is
\* executed with params.url = X the atom holds X itself.
C5_SetIframeUrlVerbatim ==
    /\ \A x \in ParamUrls : ENABLED SetIframeURL(x)
    /\ lastOp.op = "set_iframe_url" => iframeURL = lastOp.arg

C5_Witness ==
    /\ lastOp.op = "set_iframe_url" /\ lastOp.arg = "not a url"
    /\ iframeURL = "not a url"
    /\ ShowForm /\ ShowSelector

\* C6 (as amended): submitting a non-empty string S makes S the probe
\* target; one probe of S is issued when S differs from the previous
\* target, and none when S is the previous target.
C6_OverrideRoundTrip ==
    [][lastOp'.op = "submit" /\ lastOp'.arg # "" =>
          /\ url' = lastOp'.arg
          /\ probes' = IF lastOp'.arg # url
                       THEN probes (+) SetToBag({Probe(lastOp'.arg, TRUE)})
                       ELSE probes]_vars

\* C6 as stated: every submission of a non-empty S issues a probe of S.
C6_Original ==
    [][lastOp'.op = "submit" /\ lastOp'.arg # "" =>
          /\ url' = lastOp'.arg
          /\ probes' = probes (+) SetToBag({Probe(lastOp'.arg, TRUE)})]_vars

C6_Witness ==
    /\ lastOp.op = "submit" /\ lastOp.arg # "" /\ lastOp.arg # defaultUrl
    /\ url = lastOp.arg
    /\ CopiesIn(Probe(lastOp.arg, TRUE), probes) = 1
    /\ CopiesIn(Probe(defaultUrl, TRUE), probes) = 1

\* C7: when the fetch has completed with an empty array the panel renders
\* the message 'No experiments found', no selector, and the iframe with the
\* default url as its src.
C7_EmptyResult ==
    FetchedArray /\ Len(result.urls) = 0 =>
        /\ ShowEmptyMsg /\ ~ShowSelector
        /\ IframeRendered /\ IframeSrc = defaultUrl

C7_Witness ==
    /\ FetchedArray /\ Len(result.urls) = 0
    /\ ShowEmptyMsg /\ ShowForm
    /\ url # defaultUrl /\ iframeURL # atomDefault

\* C8: when the fetch has completed with exactly one descriptor no selector
\* is rendered and the iframe's src is the default url, not the
\* descriptor's url.
C8_SingleDescriptor ==
    FetchedArray /\ Len(result.urls) = 1 =>
        /\ ~ShowSelector /\ ~ShowEmptyMsg
        /\ IframeRendered /\ IframeSrc = defaultUrl
        /\ IframeSrc # result.urls[1].url

C8_Witness ==
    /\ FetchedArray /\ Len(result.urls) = 1
    /\ IframeRendered /\ ~ShowSelector
    /\ url # defaultUrl /\ iframeURL # atomDefault

\* C9: right after the user submits a non-empty S in the override form, S is
\* the probe target and S is the src of the iframe.
C9_OverrideBecomesIframeSrc ==
    lastOp.op = "submit" /\ lastOp.arg # "" =>
        url = lastOp.arg /\ IframeRendered /\ IframeSrc = lastOp.arg

\* C10: whenever the iframe is rendered, the atom holds the iframe's src.
C10_CellTracksDisplay ==
    IframeRendered => iframeURL = IframeSrc

\* no fetch issued by the mounted instance is still pending
ProbesSettled ==
    mounted /\ \A p \in BagToSet(probes) : ~p.live

\* C11: once every probe in flight has settled, serverAvailable is the
\* outcome of the probe that was issued for the current target url; a late
\* response to a probe of an abandoned url does not decide the flag.
C11_FlagIsOutcomeOfCurrentTarget ==
    ProbesSettled =>
        /\ targetOutcome \in {"ok", "fail"}
        /\ serverAvailable = (targetOutcome = "ok")

\* the strings of the model that are syntactically valid URLs
WellFormedUrls ==
    {defaultUrl, atomDefault, "http://10.0.0.7:5000"}
        \cup { d.url : d \in Descriptors }

\* C12: the atom is never undefined, and always holds a syntactically valid
\* URL, the empty string or its default.
C12_CellWellFormed ==
    /\ iframeURL # Undefined
    /\ iframeURL \in WellFormedUrls \cup {"", atomDefault}

============================================================================
